---- MODULE Spec2Model ----
(***************************************************************************)
(* Vehicle dynamics and control stack of highway/vehicle.py:               *)
(* Vehicle, ControlledVehicle, MDPVehicle and IDMVehicle.                  *)
(*                                                                         *)
(* Numbers.  The program computes in floating point; the model computes in *)
(* fixed point on integer grids chosen so that the program's own constants *)
(* are exact:                                                              *)
(*   time          1 tick   = 0.1 s                                        *)
(*   velocity      1 unit   = 1/6 m/s      (25 m/s = 150)                  *)
(*   position      1 unit   = 1/60 m       (velocity unit * tick)          *)
(*   acceleration  1 unit   = 1/60 m/s^2                                   *)
(*   angles, tangents, gains: 1 unit = 1/1000 (milli)                      *)
(* A product or quotient that leaves the grid is rounded to the nearest    *)
(* grid point (Rnd).                                                       *)
(***************************************************************************)
EXTENDS Integers, Sequences, FiniteSets, TLC

(***************************************************************************)
(* Bounds of the model.                                                    *)
(***************************************************************************)
\* lanes of the road
LanesCount == 3
\* largest SPEED_COUNT the class constant is given
MaxSpeedCount == 3
\* the road spans x in 0..RoadLen (position units); no step is taken outside
RoadLen == 200
\* setpoints are kept within SPEED_MIN -+ MaxTargetSteps increments of 5 m/s
MaxTargetSteps == 1
\* IDMVehicle.timer is stepped only while at most MaxTimer ticks
MaxTimer == 12
\* steps taken by a vehicle after it crashed
MaxCrashSteps == 1
\* number of intents given to predict_trajectory
MaxIntents == 2
\* speeds are converted from SpeedMargin units below SPEED_MIN to SpeedMargin
\* units above SPEED_MAX
SpeedMargin == 30
\* x of the other vehicle (position units), within collision distance of the
\* ego vehicle's x = 0
OtherX == 100

(***************************************************************************)
(* Units.                                                                  *)
(***************************************************************************)
Milli == 1000
None == -(Milli * Milli)        \* Python's None, where a number is expected
TicksPerSecond == 10
VU == 6                         \* velocity units per m/s
PU == VU * TicksPerSecond       \* position units per m
AU == PU                        \* acceleration units per m/s^2

Abs(x) == IF x < 0 THEN -x ELSE x
Sign(x) == IF x > 0 THEN 1 ELSE IF x < 0 THEN -1 ELSE 0

\* p / q rounded to the nearest integer, halves away from zero (q > 0)
Rnd(p, q) == IF p >= 0 THEN (2 * p + q) \div (2 * q)
                       ELSE -((2 * (-p) + q) \div (2 * q))

\* x / y for y # 0, rounded
Quot(x, y) == IF y > 0 THEN Rnd(x, y) ELSE -Rnd(x, -y)

\* np.round of p / q (q > 0): f is the floor and r the remainder of p / q;
\* the nearest integer, halves to the even one
HalfEven(f, r, q) ==
    IF 2 * r < q THEN f
    ELSE IF 2 * r > q THEN f + 1
    ELSE IF f % 2 = 0 THEN f ELSE f + 1

RoundHalfEven(p, q) == HalfEven(p \div q, p % q, q)

\* largest magnitude of a ratio carried by the fixed-point arithmetic (a float
\* growing without bound is modelled as saturation, far outside every
\* threshold the program compares it with)
Huge == 30 * Milli
Sat(x) == IF x > Huge THEN Huge ELSE IF x < -Huge THEN -Huge ELSE x

\* a * b of two milli quantities, in milli
MulM(a, b) == Rnd(a * b, Milli)
\* np.power(x, k) of a milli quantity, k a natural number
RECURSIVE Pow(_, _)
Pow(x, k) == IF k = 0 THEN Milli ELSE Sat(MulM(x, Pow(x, k - 1)))

PiMilli == 3142
HalfPiMilli == 1571

\* utils.wrap_to_pi: the angle brought into (-pi, pi]
wrap_to_pi(x) ==
    IF (x + PiMilli) % (2 * PiMilli) = 0 THEN PiMilli
    ELSE ((x + PiMilli) % (2 * PiMilli)) - PiMilli

\* sin and cos on [-pi/2, pi/2] by their Taylor polynomials (Horner form),
\* x2 = x^2
SinH(x, x2) ==
    MulM(x, Milli - MulM(Rnd(x2, 6),
                         Milli - MulM(Rnd(x2, 20), Milli - Rnd(x2, 42))))
SinP(x) == SinH(x, MulM(x, x))

CosH(x2) ==
    Milli - MulM(Rnd(x2, 2),
                 Milli - MulM(Rnd(x2, 12),
                              Milli - MulM(Rnd(x2, 30), Milli - Rnd(x2, 56))))
CosP(x) == CosH(MulM(x, x))

\* np.sin, np.cos of an angle in milliradians, in milli
SinW(w) ==
    IF w > HalfPiMilli THEN SinP(PiMilli - w)
    ELSE IF w < -HalfPiMilli THEN SinP(-PiMilli - w)
    ELSE SinP(w)
Sin(h) == SinW(wrap_to_pi(h))

CosW(w) ==
    IF w > HalfPiMilli THEN -CosP(PiMilli - w)
    ELSE IF w < -HalfPiMilli THEN -CosP(-PiMilli - w)
    ELSE CosP(w)
Cos(h) == CosW(wrap_to_pi(h))

\* np.tan, from the sine s and the cosine c
TanOf(s, c) ==
    IF c = 0 THEN Sign(s) * Huge ELSE Sat(Rnd(Milli * s, Abs(c)) * Sign(c))
Tan(h) == TanOf(Sin(h), Cos(h))

\* np.arctan on [-1, 1] by its Taylor polynomial (Horner form), and by
\* pi/2 - arctan(1/x) outside
ArctanH(x, x2) ==
    MulM(x, Milli - MulM(x2, Rnd(Milli, 3)
                             - MulM(x2, Rnd(Milli, 5)
                                        - MulM(x2, Rnd(Milli, 7) - Rnd(x2, 9)))))
ArctanP(x) == ArctanH(x, MulM(x, x))
Arctan(x) ==
    IF Abs(x) <= Milli THEN ArctanP(x)
    ELSE Sign(x) * (HalfPiMilli - ArctanP(Rnd(Milli * Milli, Abs(x))))

\* np.exp(-z) for z >= 0 (milli): exp(-z/4)^4, exp(-h) by its Taylor
\* polynomial (Horner form); 0 beyond z = 4
ExpH(h) ==
    Milli - MulM(h, Milli - MulM(Rnd(h, 2),
                                 Milli - MulM(Rnd(h, 3), Milli - Rnd(h, 4))))
ExpNeg(z) == IF z > 4 * Milli THEN 0 ELSE Pow(ExpH(Rnd(z, 4)), 4)

\* utils.constrain: x clipped to [lo, hi]
constrain(x, lo, hi) == IF x < lo THEN lo ELSE IF x > hi THEN hi ELSE x

\* utils.not_zero: a milli quantity kept at least EPS away from zero
EPS == 10
not_zero(x) == IF Abs(x) > EPS THEN x ELSE IF x > 0 THEN EPS ELSE -EPS

\* utils.do_every(duration, timer): the timer has passed the duration
do_every(duration, timer) == duration < timer

(***************************************************************************)
(* Program constants (highway/vehicle.py), in the units above.             *)
(***************************************************************************)
LENGTH == 5 * PU
WIDTH == 2 * PU
STEERING_TAU == 2               \* 0.2 s, in ticks
TAU_A == 1                      \* 0.1 s, in ticks
TAU_DS == 3                     \* 0.3 s, in ticks
KP_A == TicksPerSecond \div TAU_A          \* 1 / TAU_A  [1/s]
KP_S == 50                      \* 0.05 1/m, in milli
MAX_STEERING_ANGLE == Rnd(PiMilli, 4)
STEERING_VEL_GAIN == 60 * VU
TARGET_INCREMENT == 5 * VU      \* the 5 m/s of FASTER and SLOWER

SPEED_MIN == 25 * VU
SPEED_MAX == 35 * VU

ACC_MAX == 3 * AU
BRAKE_ACC == 5 * AU
VELOCITY_WANTED == 20 * VU
DISTANCE_WANTED == 5 * PU
TIME_WANTED == 10               \* 1.0 s, in ticks
DELTA == 4
POLITENESS == 0
LANE_CHANGE_MIN_ACC_GAIN == 12  \* 0.2 m/s^2
LANE_CHANGE_MAX_BRAKING_IMPOSED == 2 * AU
LANE_CHANGE_DELAY == 10         \* 1.0 s, in ticks
ENABLE_CRASHES == TRUE
\* 2 * np.sqrt(ACC_MAX * BRAKE_ACC), in milli m/s^2
TwoSqrtAB == 7746

Intents == {"FASTER", "SLOWER", "LANE_LEFT", "LANE_RIGHT", "none"}
Vehicles == {1, 2}

VARIABLES
    SPEED_COUNT,     \* MDPVehicle.SPEED_COUNT, the class constant
    vehicles,        \* road.vehicles: vehicle id -> the object's fields
    crash_steps,     \* vehicle id -> steps taken since it crashed
    lane_eval,       \* vehicle id -> step time since its last lane-change
                     \* evaluation, and between its last two evaluations
    last,            \* the last call: method, receiver and argument
    raised,          \* the exception the last call ended with, "" if none
    pc,              \* predict_trajectory: position in the method
    pv,              \* predict_trajectory: v, the deep copy being driven
    pt,              \* predict_trajectory: t, ticks integrated so far
    pi,              \* predict_trajectory: intents applied so far
    pj,              \* predict_trajectory: ticks done of the current intent
    pin,             \* predict_trajectory: the call's arguments
    states,          \* predict_trajectory: the list being returned
    conv             \* calls that return a value: the last one and its result

vars == <<SPEED_COUNT, vehicles, crash_steps, lane_eval, last, raised, pc, pv,
          pt, pi, pj, pin, states, conv>>

(***************************************************************************)
(* The Road collaborator (highway/road.py, not in this file): straight     *)
(* parallel lanes along x, lane l centred on y = l * LANE_WIDTH.  Every    *)
(* lane starts at x = 0; the last lane is a merging lane that ends at      *)
(* MergeLen, the others at RoadLen.                                        *)
(***************************************************************************)
LANE_WIDTH == 4 * PU
MergeLen == RoadLen \div 2
lanes_len == LanesCount
lane_length(l) == IF l = LanesCount - 1 /\ LanesCount > 1 THEN MergeLen ELSE RoadLen

\* road.get_lane_index(position): the lane whose centre line is nearest
get_lane_index(position) ==
    constrain(Rnd(position[2], LANE_WIDTH), 0, LanesCount - 1)

\* lane.local_coordinates(position): <<longitudinal, lateral>>
local_coordinates(l, position) == <<position[1], position[2] - l * LANE_WIDTH>>

\* lane.heading_at(longitudinal)
heading_at(l, s) == 0

\* lane.is_reachable_from(position)
is_reachable_from(l, position) ==
    /\ Abs(local_coordinates(l, position)[2]) <= 2 * LANE_WIDTH
    /\ 0 <= local_coordinates(l, position)[1]
    /\ local_coordinates(l, position)[1] < lane_length(l)

\* the vehicle of S nearest to x = s, 0 (None) if S is empty
nearest(vs, S, s) ==
    IF S = {} THEN 0
    ELSE CHOOSE w \in S :
           \A u \in S :
              \/ Abs(vs[w].position[1] - s) < Abs(vs[u].position[1] - s)
              \/ Abs(vs[w].position[1] - s) = Abs(vs[u].position[1] - s) /\ w <= u

\* road.neighbour_vehicles(vehicle, lane): <<preceding, following>>, each a
\* vehicle id or 0 for None
neighbour_vehicles(vs, v, l) ==
    <<nearest(vs, {w \in Vehicles \ {v} : /\ vs[w].lane_index = l
                                          /\ vs[w].position[1] >= vs[v].position[1]},
              vs[v].position[1]),
      nearest(vs, {w \in Vehicles \ {v} : /\ vs[w].lane_index = l
                                          /\ vs[w].position[1] < vs[v].position[1]},
              vs[v].position[1])>>

(***************************************************************************)
(* Vehicle                                                                 *)
(***************************************************************************)
NoCommand == [steering |-> None, acceleration |-> None]

\* Vehicle.__init__; the fields the subclasses add are carried at 0 until
\* their constructors set them
Vehicle_init(kind, position, heading, velocity) ==
    [kind |-> kind,
     position |-> position,
     heading |-> heading,
     steering_angle |-> 0,
     velocity |-> velocity,
     lane_index |-> get_lane_index(position),
     color |-> "DEFAULT_COLOR",
     action |-> [steering |-> 0, acceleration |-> 0],
     crashed |-> FALSE,
     target_lane_index |-> 0,
     target_velocity |-> 0,
     velocity_index |-> 0,
     timer |-> 0]

\* Vehicle.act(action): store the command if one is given
Vehicle_act(r, action) ==
    IF action # NoCommand THEN [r EXCEPT !.action = action] ELSE r

\* the command a crashed vehicle's step writes over the stored one; b1 and
\* b2 are the two np.random.beta(0.5, 0.5) draws, in tenths
crash_override(r, b1, b2) ==
    [steering |-> Rnd(MAX_STEERING_ANGLE * (2 * b1 - 10), 10),
     acceleration |-> Rnd((2 * b2 - 100) * r.velocity * AU, 100 * VU)]

\* the command that Vehicle.step integrates
step_command(r, b1, b2) == IF r.crashed THEN crash_override(r, b1, b2) ELSE r.action

\* a faulty Euler step that leaves out the 1 / STEERING_TAU of the steering
\* response
integrate_no_tau(r, action, dt, position) ==
    [r EXCEPT !.action = action,
              !.position = position,
              !.heading = @ + Rnd(r.velocity * r.steering_angle * dt * PU,
                                  VU * LENGTH * TicksPerSecond),
              !.steering_angle = @ + Rnd((Tan(action.steering) - @) * dt,
                                         TicksPerSecond),
              !.velocity = @ + Rnd(action.acceleration * dt * VU, AU * TicksPerSecond),
              !.lane_index = get_lane_index(position)]

\* the Euler step of Vehicle.step under command `action`, to `position`
integrate(r, action, dt, position) ==
    [r EXCEPT !.action = action,
              !.position = position,
              !.heading = @ + Rnd(r.velocity * r.steering_angle * dt * PU,
                                  VU * LENGTH * TicksPerSecond),
              !.steering_angle = @ + Rnd((Tan(action.steering) - @) * dt, STEERING_TAU),
              !.velocity = @ + Rnd(action.acceleration * dt * VU, AU * TicksPerSecond),
              !.lane_index = get_lane_index(position)]

\* Vehicle.step(dt): one explicit Euler step of the bicycle model
Vehicle_step(r, dt, b1, b2) ==
    integrate(r, step_command(r, b1, b2), dt,
              <<r.position[1] + Rnd(r.velocity * dt * Cos(r.heading), Milli),
                r.position[2] + Rnd(r.velocity * dt * Sin(r.heading), Milli)>>)

\* Vehicle.lane_distance_to_vehicle(vehicle) along the own lane
lane_distance_to_vehicle(r, o) ==
    local_coordinates(r.lane_index, o.position)[1]
    - local_coordinates(r.lane_index, r.position)[1]

\* np.linalg.norm(a - b) < d, on squares
norm_less(a, b, d) ==
    (a[1] - b[1]) * (a[1] - b[1]) + (a[2] - b[2]) * (a[2] - b[2]) < d * d

\* the test of Vehicle.check_collision
collides(a, b) == norm_less(a.position, b.position, WIDTH \div 2 + WIDTH \div 2)

\* a faulty check_collision that assigns the outcome of the test, so that a
\* pair that has moved apart is unmarked
check_collision_assign(vs, a, b) ==
    IF a = b THEN vs
    ELSE [vs EXCEPT ![a].crashed = collides(vs[a], vs[b]),
                    ![b].crashed = collides(vs[a], vs[b])]

\* a faulty check_collision that marks the receiver only
check_collision_oneway(vs, a, b) ==
    IF a # b /\ collides(vs[a], vs[b])
    THEN [vs EXCEPT ![a].crashed = TRUE, ![a].color = "RED"]
    ELSE vs

\* Vehicle.check_collision(other), on the vehicle collection: self = a,
\* other = b
check_collision(vs, a, b) ==
    IF ~ENABLE_CRASHES THEN vs
    ELSE IF a = b THEN vs
    ELSE IF collides(vs[a], vs[b])
         THEN [vs EXCEPT ![a].crashed = TRUE, ![b].crashed = TRUE,
                         ![a].color = "RED", ![b].color = "RED"]
         ELSE vs

(***************************************************************************)
(* ControlledVehicle                                                       *)
(***************************************************************************)
\* Python's `a or b` on numbers: b when a is None or 0
PyOr(a, b) == IF a = None \/ a = 0 THEN b ELSE a

\* the setpoints ControlledVehicle.__init__ adds to a constructed Vehicle
with_setpoints(r, target_lane_index, target_velocity) ==
    [r EXCEPT !.target_lane_index = PyOr(target_lane_index, r.lane_index),
              !.target_velocity = PyOr(target_velocity, r.velocity)]

\* ControlledVehicle.__init__
ControlledVehicle_init(kind, position, heading, velocity, target_lane_index, target_velocity) ==
    with_setpoints(Vehicle_init(kind, position, heading, velocity),
                   target_lane_index, target_velocity)

\* a velocity in milli m/s
VelMilli(v) == Rnd(v * Milli, VU)

\* the lateral-offset term of the heading reference, for lateral offset lat
offset_gain(r, lat) ==
    MulM(Rnd(KP_S * lat, PU) * Sign(r.velocity),
         ExpNeg(Pow(Sat(Rnd(r.velocity * Milli, STEERING_VEL_GAIN)), 2)))

\* the steering command for a heading reference
steering_for(r, heading_ref) ==
    Sat(Quot(wrap_to_pi(heading_ref - r.heading)
               * TicksPerSecond * (LENGTH \div PU) * Milli,
             TAU_DS * not_zero(VelMilli(r.velocity))))

\* ControlledVehicle.steering_control(target_lane_index)
steering_control(r, target_lane_index) ==
    constrain(
        steering_for(r,
            heading_at(target_lane_index,
                       local_coordinates(target_lane_index, r.position)[1]
                       + (r.velocity * (TAU_DS + STEERING_TAU) * PU)
                         \div (VU * TicksPerSecond))
            - Arctan(offset_gain(r, local_coordinates(target_lane_index,
                                                      r.position)[2]))),
        -MAX_STEERING_ANGLE, MAX_STEERING_ANGLE)

\* ControlledVehicle.velocity_control(target_velocity)
velocity_control(r, target_velocity) ==
    (KP_A * (target_velocity - r.velocity) * AU) \div VU

\* the lane a LANE_RIGHT / LANE_LEFT intent asks for, and whether the road
\* grants it
lane_request(r, intent) ==
    IF intent = "LANE_RIGHT" THEN r.lane_index + 1 ELSE r.lane_index - 1

lane_granted(r, intent) ==
    IF intent = "LANE_RIGHT"
    THEN lane_request(r, intent) < lanes_len
         /\ is_reachable_from(lane_request(r, intent), r.position)
    ELSE lane_request(r, intent) >= 0
         /\ is_reachable_from(lane_request(r, intent), r.position)

\* the low-level command the control loops issue, stored by Vehicle.act
issue_command(r) ==
    Vehicle_act(r, [steering |-> steering_control(r, r.target_lane_index),
                    acceleration |-> velocity_control(r, r.target_velocity)])

\* a faulty resolution that ignores every intent once the vehicle has crashed
resolve_intent_unless_crashed(r, intent) ==
    IF r.crashed THEN r
    ELSE IF intent = "FASTER"
      THEN [r EXCEPT !.target_velocity = @ + TARGET_INCREMENT]
    ELSE IF intent = "SLOWER"
      THEN [r EXCEPT !.target_velocity = @ - TARGET_INCREMENT]
    ELSE IF intent \in {"LANE_RIGHT", "LANE_LEFT"} /\ lane_granted(r, intent)
      THEN [r EXCEPT !.target_lane_index = lane_request(r, intent)]
    ELSE r

\* the setpoints after ControlledVehicle.act has resolved the intent
resolve_intent(r, intent) ==
    IF intent = "FASTER"
      THEN [r EXCEPT !.target_velocity = @ + TARGET_INCREMENT]
    ELSE IF intent = "SLOWER"
      THEN [r EXCEPT !.target_velocity = @ - TARGET_INCREMENT]
    ELSE IF intent \in {"LANE_RIGHT", "LANE_LEFT"} /\ lane_granted(r, intent)
      THEN [r EXCEPT !.target_lane_index = lane_request(r, intent)]
    ELSE r

\* ControlledVehicle.act(action)
ControlledVehicle_act(r, intent) == issue_command(resolve_intent(r, intent))

(***************************************************************************)
(* MDPVehicle                                                              *)
(***************************************************************************)
\* MDPVehicle.index_to_speed(index), for SPEED_COUNT = n
index_to_speed(n, index) ==
    IF n > 1 THEN SPEED_MIN + Quot(index * (SPEED_MAX - SPEED_MIN), n - 1)
    ELSE SPEED_MIN

\* a faulty speed_to_index that truncates instead of rounding
speed_to_index_floor(n, speed) ==
    ((speed - SPEED_MIN) * (n - 1)) \div (SPEED_MAX - SPEED_MIN)

\* MDPVehicle.speed_to_index(speed), for SPEED_COUNT = n
speed_to_index(n, speed) ==
    RoundHalfEven((speed - SPEED_MIN) * (n - 1), SPEED_MAX - SPEED_MIN)

\* the vehicle with velocity_index set and target_velocity taken from it
with_index(n, r, velocity_index) ==
    [r EXCEPT !.velocity_index = velocity_index,
              !.target_velocity = index_to_speed(n, velocity_index)]

\* the index the two last lines of MDPVehicle.__init__ start from
init_index(n, r) == with_index(n, r, speed_to_index(n, r.target_velocity))

\* MDPVehicle.__init__
MDPVehicle_init(n, position, heading, velocity, target_lane_index, target_velocity) ==
    init_index(n, ControlledVehicle_init("MDPVehicle", position, heading, velocity,
                                         target_lane_index, target_velocity))

\* a faulty resolution that moves the held index instead of the index of
\* the current velocity
resolve_mdp_held(n, r, intent) ==
    IF intent = "FASTER"
      THEN [r EXCEPT !.velocity_index = @ + 1]
    ELSE IF intent = "SLOWER"
      THEN [r EXCEPT !.velocity_index = @ - 1]
    ELSE IF intent \in {"LANE_RIGHT", "LANE_LEFT"} /\ lane_granted(r, intent)
      THEN [r EXCEPT !.target_lane_index = lane_request(r, intent)]
    ELSE r

\* the index and the lane after MDPVehicle.act has resolved the intent
resolve_mdp_intent(n, r, intent) ==
    IF intent = "FASTER"
      THEN [r EXCEPT !.velocity_index = speed_to_index(n, r.velocity) + 1]
    ELSE IF intent = "SLOWER"
      THEN [r EXCEPT !.velocity_index = speed_to_index(n, r.velocity) - 1]
    ELSE IF intent \in {"LANE_RIGHT", "LANE_LEFT"} /\ lane_granted(r, intent)
      THEN [r EXCEPT !.target_lane_index = lane_request(r, intent)]
    ELSE r

\* the clamp of the index and the setpoint taken from it
clamp_index(n, r) == with_index(n, r, constrain(r.velocity_index, 0, n - 1))

\* MDPVehicle.act(action)
MDPVehicle_act(n, r, intent) ==
    ControlledVehicle_act(clamp_index(n, resolve_mdp_intent(n, r, intent)), "none")

(***************************************************************************)
(* IDMVehicle                                                              *)
(***************************************************************************)
\* the fields IDMVehicle.__init__ sets after ControlledVehicle.__init__
with_policy(r, jitter, timer) ==
    [r EXCEPT !.color = "IDM_COLOR",
              !.target_velocity = VELOCITY_WANTED + jitter * VU,
              !.timer = timer]

\* IDMVehicle.__init__; jitter is the np.random.randint(-5, 5) draw [m/s],
\* timer the np.random.random() * LANE_CHANGE_DELAY draw [ticks]
IDMVehicle_init(position, heading, velocity, target_lane_index, jitter, timer) ==
    with_policy(ControlledVehicle_init("IDMVehicle", position, heading, velocity,
                                       target_lane_index, None),
                jitter, timer)

\* a length in millimetres
LenMilli(x) == Rnd(x * Milli, PU)

\* whether IDMVehicle.idm(ego_vehicle, front_vehicle) raises: it reads
\* ego_vehicle.target_velocity, which a plain Vehicle does not have
idm_raises(vs, ego) == ego # 0 /\ vs[ego].kind = "Vehicle"

\* the free-road term of idm for ego vehicle e
idm_free(e) ==
    Rnd(ACC_MAX * (Milli - Pow(Sat(Quot(VelMilli(e.velocity) * Milli,
                                        not_zero(VelMilli(e.target_velocity)))),
                               DELTA)),
        Milli)

\* d and d_star of idm, for ego vehicle e and front vehicle f
idm_d(e, f) == lane_distance_to_vehicle(e, f) - LENGTH \div 2 - LENGTH \div 2
idm_d_star(e, f) ==
    DISTANCE_WANTED + e.velocity * TIME_WANTED
    + Rnd(Rnd(e.velocity * (e.velocity - f.velocity) * TicksPerSecond, VU) * Milli,
          TwoSqrtAB)

\* the braking term of idm
idm_brake(e, f) ==
    Rnd(ACC_MAX * Pow(Sat(Quot(Sat(LenMilli(idm_d_star(e, f))) * Milli,
                               not_zero(LenMilli(idm_d(e, f))))),
                      2),
        Milli)

\* IDMVehicle.idm(ego_vehicle, front_vehicle); 0 stands for None
idm(vs, ego, front) ==
    IF ego = 0 THEN 0
    ELSE IF front = 0 THEN idm_free(vs[ego])
    ELSE idm_free(vs[ego]) - idm_brake(vs[ego], vs[front])

\* jerk of mobil; new and old are <<preceding, following>> in the new and in
\* the own lane
jerk(vs, v, new, old) ==
    idm(vs, v, new[1]) - idm(vs, v, old[1])
    + POLITENESS * (idm(vs, new[2], v) - idm(vs, new[2], new[1])
                    + idm(vs, old[2], old[1]) - idm(vs, old[2], v))

\* mobil from the advantage test on
mobil_gain(vs, v, new, old) ==
    IF idm_raises(vs, old[2]) THEN "AttributeError"
    ELSE IF jerk(vs, v, new, old) < LANE_CHANGE_MIN_ACC_GAIN THEN "False"
    ELSE "True"

\* mobil from the safety test on
mobil_safe(vs, v, new) ==
    IF idm_raises(vs, new[2]) THEN "AttributeError"
    ELSE IF idm(vs, new[2], v) < -LANE_CHANGE_MAX_BRAKING_IMPOSED THEN "False"
    ELSE mobil_gain(vs, v, new, neighbour_vehicles(vs, v, vs[v].lane_index))

\* IDMVehicle.mobil(lane_index): "True", "False", or the exception raised
mobil(vs, v, lane_index) ==
    IF ~is_reachable_from(lane_index, vs[v].position) THEN "False"
    ELSE mobil_safe(vs, v, neighbour_vehicles(vs, v, lane_index))

\* the two lanes a lane-change evaluation looks at, in the order of the loop
lane_indexes(r) ==
    <<constrain(get_lane_index(r.position) - 1, 0, lanes_len - 1),
      constrain(get_lane_index(r.position) + 1, 0, lanes_len - 1)>>

\* the loop body of change_lane_policy once mobil has answered m
lane_answer(c, v, lane_index, m) ==
    IF m = "True" THEN [c EXCEPT !.vs[v].target_lane_index = lane_index]
    ELSE IF m = "False" THEN c
    ELSE [c EXCEPT !.raised = m]

\* one pass of the loop of change_lane_policy over lane_index, from the
\* outcome c of the passes before it
lane_pass(c, v, lane_index) ==
    IF c.raised # "" THEN c
    ELSE IF lane_index = c.vs[v].target_lane_index THEN c
    ELSE lane_answer(c, v, lane_index, mobil(c.vs, v, lane_index))

\* the lane-change evaluation: the timer reset and the loop over both lanes
evaluate_lanes(vs, v) ==
    lane_pass(lane_pass([vs |-> [vs EXCEPT ![v].timer = 0], raised |-> "",
                         evaluated |-> TRUE],
                        v, lane_indexes(vs[v])[1]),
              v, lane_indexes(vs[v])[2])

\* IDMVehicle.change_lane_policy(): the vehicles after the call, the
\* exception it ended with, and whether it went past the do_every gate
change_lane_policy(vs, v) ==
    IF ~do_every(LANE_CHANGE_DELAY, vs[v].timer)
    THEN [vs |-> vs, raised |-> "", evaluated |-> FALSE]
    ELSE evaluate_lanes(vs, v)

\* IDMVehicle.act after the lateral controller: the method reads
\* self.controller and self.CONTROLLER_IDM, which no class of the hierarchy
\* defines, so the call ends in AttributeError before a command is stored
act_longitudinal(c) ==
    IF c.raised # "" THEN c ELSE [c EXCEPT !.raised = "AttributeError"]

\* IDMVehicle.act(action), as change_lane_policy; the argument is not read
IDMVehicle_act(vs, v) == act_longitudinal(change_lane_policy(vs, v))

\* a faulty step that leaves the timer alone
IDMVehicle_step_untimed(r, dt, b1, b2) == Vehicle_step(r, dt, b1, b2)

\* IDMVehicle.step(dt)
IDMVehicle_step(r, dt, b1, b2) ==
    Vehicle_step([r EXCEPT !.timer = @ + dt], dt, b1, b2)

\* the room test of recover_from_stop on the nearest following vehicle of a
\* lane: none, or a signed lane distance to it above 3 * LENGTH
room_behind(vs, v, following) ==
    \/ following = 0
    \/ lane_distance_to_vehicle(vs[v], vs[following]) > 3 * LENGTH

\* IDMVehicle.recover_from_stop(acceleration)
recover_from_stop(vs, v, acceleration) ==
    IF /\ vs[v].target_lane_index # vs[v].lane_index
       /\ vs[v].velocity < 5 * VU
       /\ room_behind(vs, v, neighbour_vehicles(vs, v, vs[v].lane_index)[2])
       /\ room_behind(vs, v, neighbour_vehicles(vs, v, vs[v].target_lane_index)[2])
    THEN -(ACC_MAX \div 2)
    ELSE acceleration

(***************************************************************************)
(* The calls and their inputs                                              *)
(***************************************************************************)
\* step durations [ticks]
DtSet == {1, 2}
\* pairs of np.random.beta(0.5, 0.5) draws [tenths]
BetaPairs == {<<0, 10>>, <<10, 0>>}
\* commands given to a plain Vehicle
Commands == {NoCommand, [steering |-> 0, acceleration |-> 0]}

NoCall == [op |-> "init", self |-> 0, arg |-> 0]
Call(op, self, arg) == [op |-> op, self |-> self, arg |-> arg]

IdlePredict ==
    /\ pc = "idle"
    /\ pv = 0
    /\ pt = 0
    /\ pi = 0
    /\ pj = 0
    /\ pin = 0
    /\ states = <<>>

NoConv == [op |-> "none", arg |-> 0, via |-> 0, result |-> 0]
IdleConv == conv = NoConv

\* the vehicles the road is populated with: an ego vehicle of a controlled
\* class in lane 0 or 1 at x = 0, and a plain Vehicle in lane 0 ahead of it
EgoKinds == {"ControlledVehicle", "MDPVehicle", "IDMVehicle"}
EgoVelocities(kind) ==
    IF kind = "IDMVehicle" THEN {0, 20 * VU}
    ELSE IF kind = "MDPVehicle" THEN {20 * VU, 30 * VU}
    ELSE {20 * VU}
EgoLanes == {0, 1}
Jitters(kind) == IF kind = "IDMVehicle" THEN {-5, 4} ELSE {0}
Timers(kind) == IF kind = "IDMVehicle" THEN {0, 9} ELSE {0}

Ego(kind, n, position, velocity, jitter, timer) ==
    IF kind = "ControlledVehicle"
      THEN ControlledVehicle_init(kind, position, 0, velocity, None, None)
    ELSE IF kind = "MDPVehicle"
      THEN MDPVehicle_init(n, position, 0, velocity, None, None)
    ELSE IDMVehicle_init(position, 0, velocity, None, jitter, timer)

Other == Vehicle_init("Vehicle", <<OtherX, 0>>, 0, 0)

\* a road with an ego vehicle of one of `kinds` and the other vehicle
Populated(kinds) ==
    /\ \E kind \in kinds :
       \E n \in IF kind = "MDPVehicle" THEN 1 .. MaxSpeedCount ELSE {1} :
       \E lane \in EgoLanes, velocity \in EgoVelocities(kind) :
       \E jitter \in Jitters(kind), timer \in Timers(kind) :
          /\ SPEED_COUNT = n
          /\ vehicles = (1 :> Ego(kind, n, <<0, lane * LANE_WIDTH>>, velocity,
                                  jitter, timer))
                        @@ (2 :> Other)
    /\ crash_steps = [v \in Vehicles |-> 0]
    /\ lane_eval = [v \in Vehicles |-> [since |-> None, gap |-> None]]
    /\ last = NoCall
    /\ raised = ""

Init ==
    /\ Populated(EgoKinds)
    /\ IdlePredict
    /\ IdleConv

RoadFrame == UNCHANGED <<SPEED_COUNT, vehicles, crash_steps, lane_eval>>
PredictFrame == UNCHANGED <<pc, pv, pt, pi, pj, pin, states>>
Frame == UNCHANGED <<SPEED_COUNT, pc, pv, pt, pi, pj, pin, states, conv>>

\* vehicle.act(action) on a plain Vehicle
DoVehicleAct(v, action) ==
    /\ vehicles[v].kind = "Vehicle"
    /\ vehicles' = [vehicles EXCEPT ![v] = Vehicle_act(@, action)]
    /\ last' = Call("act", v, action)
    /\ raised' = ""
    /\ UNCHANGED <<crash_steps, lane_eval>>
    /\ Frame

\* the setpoint window within which FASTER and SLOWER are given
TargetInWindow(t) == Abs(t - SPEED_MIN) <= MaxTargetSteps * TARGET_INCREMENT

\* vehicle.act(intent) on a ControlledVehicle
DoControlledAct(v, intent) ==
    /\ vehicles[v].kind = "ControlledVehicle"
    /\ \E r \in {ControlledVehicle_act(vehicles[v], intent)} :
          /\ TargetInWindow(r.target_velocity)
          /\ vehicles' = [vehicles EXCEPT ![v] = r]
    /\ last' = Call("act", v, intent)
    /\ raised' = ""
    /\ UNCHANGED <<crash_steps, lane_eval>>
    /\ Frame

\* vehicle.act(intent) on an MDPVehicle
DoMDPAct(v, intent) ==
    /\ vehicles[v].kind = "MDPVehicle"
    /\ vehicles' = [vehicles EXCEPT ![v] = MDPVehicle_act(SPEED_COUNT, @, intent)]
    /\ last' = Call("act", v, intent)
    /\ raised' = ""
    /\ UNCHANGED <<crash_steps, lane_eval>>
    /\ Frame

\* the step time between evaluations, after an act that did or did not
\* evaluate the lanes
evaluation_noted(e, evaluated) ==
    IF evaluated THEN [since |-> 0, gap |-> e.since] ELSE e

\* vehicle.act() on an IDMVehicle
DoIDMAct(v) ==
    /\ vehicles[v].kind = "IDMVehicle"
    /\ \E c \in {IDMVehicle_act(vehicles, v)} :
          /\ vehicles' = c.vs
          /\ raised' = c.raised
          /\ lane_eval' = [lane_eval EXCEPT ![v] = evaluation_noted(@, c.evaluated)]
    /\ last' = Call("act", v, "none")
    /\ UNCHANGED crash_steps
    /\ Frame

\* where steps are taken: on the road, and for a bounded time after a crash
\* and on the lane-change timer
InBox(r) ==
    /\ 0 <= r.position[1]
    /\ r.position[1] <= RoadLen
    /\ -LANE_WIDTH <= r.position[2]
    /\ r.position[2] <= LanesCount * LANE_WIDTH

\* the step time between evaluations, after a step of dt
step_noted(e, dt) == IF e.since = None THEN e ELSE [e EXCEPT !.since = @ + dt]

\* vehicle.step(dt)
DoStep(v, dt) ==
    /\ InBox(vehicles[v])
    /\ vehicles[v].crashed => crash_steps[v] < MaxCrashSteps
    /\ vehicles[v].kind = "IDMVehicle" => vehicles[v].timer <= MaxTimer
    /\ \E b \in IF vehicles[v].crashed THEN BetaPairs ELSE {<<0, 0>>} :
          vehicles' = [vehicles EXCEPT ![v] =
                          IF @.kind = "IDMVehicle"
                          THEN IDMVehicle_step(@, dt, b[1], b[2])
                          ELSE Vehicle_step(@, dt, b[1], b[2])]
    /\ crash_steps' = IF vehicles[v].crashed
                      THEN [crash_steps EXCEPT ![v] = @ + 1] ELSE crash_steps
    /\ lane_eval' = [lane_eval EXCEPT ![v] = step_noted(@, dt)]
    /\ last' = Call("step", v, dt)
    /\ raised' = ""
    /\ Frame

\* a.check_collision(b)
DoCheckCollision(a, b) ==
    /\ vehicles' = check_collision(vehicles, a, b)
    /\ last' = Call("check_collision", a, b)
    /\ raised' = ""
    /\ UNCHANGED <<crash_steps, lane_eval>>
    /\ Frame

VehicleAct == \E v \in Vehicles, action \in Commands : DoVehicleAct(v, action)
ControlledAct == \E v \in Vehicles, intent \in Intents : DoControlledAct(v, intent)
MDPAct == \E v \in Vehicles, intent \in Intents : DoMDPAct(v, intent)
IDMAct == \E v \in Vehicles : DoIDMAct(v)
Step == \E v \in Vehicles, dt \in DtSet : DoStep(v, dt)
CheckCollision == \E a, b \in Vehicles : DoCheckCollision(a, b)

Next ==
    \/ VehicleAct
    \/ ControlledAct
    \/ MDPAct
    \/ IDMAct
    \/ Step
    \/ CheckCollision

Spec == Init /\ [][Next]_vars

(***************************************************************************)
(* The speed conversions of MDPVehicle, called on their own                *)
(***************************************************************************)
\* the speeds converted: the allowed range and SpeedMargin beyond it
SpeedInputs == (SPEED_MIN - SpeedMargin) .. (SPEED_MAX + SpeedMargin)

InitSpeed ==
    /\ SPEED_COUNT \in 1 .. MaxSpeedCount
    /\ vehicles = <<>>
    /\ crash_steps = <<>>
    /\ lane_eval = <<>>
    /\ last = NoCall
    /\ raised = ""
    /\ IdlePredict
    /\ IdleConv

\* index_to_speed(speed_to_index(speed))
DoSpeedRoundTrip(speed) ==
    /\ conv' = [op |-> "speed", arg |-> speed,
                via |-> speed_to_index(SPEED_COUNT, speed),
                result |-> index_to_speed(SPEED_COUNT,
                                          speed_to_index(SPEED_COUNT, speed))]
    /\ UNCHANGED <<last, raised>>
    /\ RoadFrame
    /\ PredictFrame

\* speed_to_index(index_to_speed(index))
DoIndexRoundTrip(index) ==
    /\ conv' = [op |-> "index", arg |-> index,
                via |-> index_to_speed(SPEED_COUNT, index),
                result |-> speed_to_index(SPEED_COUNT,
                                          index_to_speed(SPEED_COUNT, index))]
    /\ UNCHANGED <<last, raised>>
    /\ RoadFrame
    /\ PredictFrame

SpeedRoundTrip == \E speed \in SpeedInputs : DoSpeedRoundTrip(speed)
IndexRoundTrip == \E index \in 0 .. SPEED_COUNT - 1 : DoIndexRoundTrip(index)

NextSpeed ==
    \/ SpeedRoundTrip
    \/ IndexRoundTrip

SpecSpeed == InitSpeed /\ [][NextSpeed]_vars

(***************************************************************************)
(* MDPVehicle.predict_trajectory, statement by statement                   *)
(***************************************************************************)
\* the arguments of the call [ticks]
DurationSet == {2, 4}
TimestepSet == {1, 2}
RECURSIVE IntentSeqs(_)
IntentSeqs(n) ==
    IF n = 0 THEN {<<>>}
    ELSE IntentSeqs(n - 1)
         \cup {Append(q, i) : q \in {x \in IntentSeqs(n - 1) : Len(x) = n - 1},
                              i \in Intents}

\* int(action_duration / dt) and int(trajectory_timestep / dt)
action_ticks(in) == in.action_duration \div in.dt
sample_ticks(in) == in.trajectory_timestep \div in.dt

InitPredict ==
    /\ Populated({"MDPVehicle"})
    /\ IdlePredict
    /\ IdleConv

\* states = []; v = copy.deepcopy(self); t = 0
DoPredictCall(v, actions, action_duration, trajectory_timestep, dt) ==
    /\ pc = "idle"
    /\ vehicles[v].kind = "MDPVehicle"
    /\ pin' = [self |-> v, actions |-> actions, action_duration |-> action_duration,
               trajectory_timestep |-> trajectory_timestep, dt |-> dt]
    /\ pv' = vehicles[v]
    /\ pt' = 0
    /\ pi' = 0
    /\ pj' = 0
    /\ states' = <<>>
    /\ pc' = "for_action"
    /\ last' = Call("predict_trajectory", v, actions)
    /\ raised' = ""
    /\ UNCHANGED conv
    /\ RoadFrame

\* for action in actions: v.act(action); after the last one, return states
DoPredictAction ==
    /\ pc = "for_action"
    /\ IF pi < Len(pin.actions)
       THEN /\ pv' = MDPVehicle_act(SPEED_COUNT, pv, pin.actions[pi + 1])
            /\ pi' = pi + 1
            /\ pj' = 0
            /\ pc' = "for_tick"
       ELSE /\ pc' = "done"
            /\ UNCHANGED <<pv, pi, pj>>
    /\ UNCHANGED <<pt, pin, states, last, raised, conv>>
    /\ RoadFrame

\* the copy after v.act(); v.step(dt)
ticked(n, r, dt) == Vehicle_step(MDPVehicle_act(n, r, "none"), dt, 0, 0)

\* a faulty sampling that records every tick
sampled_every_tick(list, r, t, every) == Append(list, r)

\* the list after the sampling test of tick t
sampled(list, r, t, every) == IF t % every = 0 THEN Append(list, r) ELSE list

\* for _ in range(int(action_duration / dt)): t += 1; v.act(); v.step(dt);
\* the sampling test, which divides by int(trajectory_timestep / dt)
DoPredictTick ==
    /\ pc = "for_tick"
    /\ IF pj < action_ticks(pin)
       THEN /\ pt' = pt + 1
            /\ pj' = pj + 1
            /\ pv' = ticked(SPEED_COUNT, pv, pin.dt)
            /\ IF sample_ticks(pin) = 0
               THEN /\ raised' = "ZeroDivisionError"
                    /\ pc' = "done"
                    /\ UNCHANGED states
               ELSE /\ states' = sampled(states, ticked(SPEED_COUNT, pv, pin.dt),
                                         pt + 1, sample_ticks(pin))
                    /\ UNCHANGED <<raised, pc>>
       ELSE /\ pc' = "for_action"
            /\ UNCHANGED <<pt, pj, pv, states, raised>>
    /\ UNCHANGED <<pi, pin, last, conv>>
    /\ RoadFrame

PredictCall ==
    \E v \in Vehicles, actions \in IntentSeqs(MaxIntents) :
    \E action_duration \in DurationSet, trajectory_timestep \in TimestepSet :
    \E dt \in DtSet :
       DoPredictCall(v, actions, action_duration, trajectory_timestep, dt)

NextPredict ==
    \/ PredictCall
    \/ DoPredictAction
    \/ DoPredictTick

SpecPredict == InitPredict /\ [][NextPredict]_vars

(***************************************************************************)
(* An IDMVehicle among traffic: lane-change evaluations and the recovery   *)
(* manoeuvre.  The IDMVehicle starts at x = 0, slow enough to stay on the  *)
(* road until its timer passes LANE_CHANGE_DELAY; the other vehicle stands *)
(* in any lane, behind it or ahead of it.                                  *)
(***************************************************************************)
\* x of the other vehicle: 4 and 2 vehicle lengths behind, 6 ahead
LaneOtherXs == {-(4 * LENGTH), -(2 * LENGTH), 6 * LENGTH}
\* velocity of the IDMVehicle: stopped, and the 5 m/s recover_from_stop
\* compares with
LaneEgoVelocities == {0, 5 * VU}
\* target_lane_index given to the constructor
LaneTargets == {None} \cup (0 .. LanesCount - 1)
\* accelerations handed to recover_from_stop
AccelerationSet == {0, ACC_MAX}

InitLanes ==
    /\ \E lane \in 0 .. LanesCount - 1, velocity \in LaneEgoVelocities :
       \E target \in LaneTargets :
       \E jitter \in Jitters("IDMVehicle"), timer \in Timers("IDMVehicle") :
       \E olane \in 0 .. LanesCount - 1, ox \in LaneOtherXs :
          vehicles = (1 :> IDMVehicle_init(<<0, lane * LANE_WIDTH>>, 0, velocity,
                                           target, jitter, timer))
                     @@ (2 :> Vehicle_init("Vehicle", <<ox, olane * LANE_WIDTH>>,
                                           0, 0))
    /\ SPEED_COUNT = 1
    /\ crash_steps = [v \in Vehicles |-> 0]
    /\ lane_eval = [v \in Vehicles |-> [since |-> None, gap |-> None]]
    /\ last = NoCall
    /\ raised = ""
    /\ IdlePredict
    /\ IdleConv

\* vehicle.recover_from_stop(acceleration) on an IDMVehicle
DoRecoverFromStop(v, acceleration) ==
    /\ vehicles[v].kind = "IDMVehicle"
    /\ conv' = [op |-> "recover_from_stop", arg |-> acceleration, via |-> v,
                result |-> recover_from_stop(vehicles, v, acceleration)]
    /\ last' = Call("recover_from_stop", v, acceleration)
    /\ raised' = ""
    /\ RoadFrame
    /\ PredictFrame

NextLanes ==
    \/ IDMAct
    \/ Step
    \/ \E v \in Vehicles, acceleration \in AccelerationSet :
          DoRecoverFromStop(v, acceleration)

SpecLanes == InitLanes /\ [][NextLanes]_vars

(***************************************************************************)
(* A base Vehicle driven by low-level commands: it is given a steering or  *)
(* an acceleration command or the zero command, and stepped, until it has  *)
(* left the road.                                                          *)
(***************************************************************************)
\* step durations [ticks], below and above 2 * STEERING_TAU
DtWide == {1, 2, 5}
\* commands given: none of both, a steering of 0.1 rad, full acceleration
DriveCommands ==
    {[steering |-> 0, acceleration |-> 0],
     [steering |-> Milli \div 10, acceleration |-> 0],
     [steering |-> 0, acceleration |-> ACC_MAX]}
\* heading and velocity the vehicle is constructed with
DriveHeadings == {0, Rnd(PiMilli, 6)}
DriveVelocities == {10 * VU}

InitDrive ==
    /\ \E heading \in DriveHeadings, velocity \in DriveVelocities :
          vehicles = (1 :> Vehicle_init("Vehicle", <<0, 0>>, heading, velocity))
                     @@ (2 :> Other)
    /\ SPEED_COUNT = 1
    /\ crash_steps = [v \in Vehicles |-> 0]
    /\ lane_eval = [v \in Vehicles |-> [since |-> None, gap |-> None]]
    /\ last = NoCall
    /\ raised = ""
    /\ IdlePredict
    /\ IdleConv

\* vehicle 1 is driven; the other one stands in its way
NextDrive ==
    \/ \E action \in DriveCommands : DoVehicleAct(1, action)
    \/ \E dt \in DtWide : DoStep(1, dt)
    \/ CheckCollision

SpecDrive == InitDrive /\ [][NextDrive]_vars

(***************************************************************************)
(* The constructors of the controlled classes, called with and without     *)
(* explicit setpoints; the vehicle constructed takes the place of the      *)
(* first vehicle of the road.                                              *)
(***************************************************************************)
\* the argument target_velocity: omitted (None) or explicit; the argument
\* target_lane_index is drawn from LaneTargets
TargetVelocityArgs == {None, 0, 20 * VU, 30 * VU}

InitConstruct ==
    /\ Populated(EgoKinds)
    /\ IdlePredict
    /\ IdleConv

\* the object kind(road, position, 0, velocity, target_lane_index,
\* target_velocity) constructs; IDMVehicle takes no target_velocity
Constructed(kind, n, position, velocity, target_lane_index, target_velocity, jitter, timer) ==
    IF kind = "ControlledVehicle"
      THEN ControlledVehicle_init(kind, position, 0, velocity, target_lane_index,
                                  target_velocity)
    ELSE IF kind = "MDPVehicle"
      THEN MDPVehicle_init(n, position, 0, velocity, target_lane_index,
                           target_velocity)
    ELSE IDMVehicle_init(position, 0, velocity, target_lane_index, jitter, timer)

\* a constructor call
DoConstruct(kind, lane, velocity, target_lane_index, target_velocity, jitter, timer) ==
    /\ kind = "IDMVehicle" => target_velocity = None
    /\ vehicles' = [vehicles EXCEPT ![1] =
                       Constructed(kind, SPEED_COUNT, <<0, lane * LANE_WIDTH>>,
                                   velocity, target_lane_index, target_velocity,
                                   jitter, timer)]
    /\ last' = Call("__init__", 1,
                    [kind |-> kind, target_lane_index |-> target_lane_index,
                     target_velocity |-> target_velocity])
    /\ raised' = ""
    /\ UNCHANGED <<crash_steps, lane_eval>>
    /\ Frame

NextConstruct ==
    \E kind \in EgoKinds, lane \in 0 .. LanesCount - 1, velocity \in {0, 20 * VU} :
    \E target_lane_index \in LaneTargets, target_velocity \in TargetVelocityArgs :
    \E jitter \in Jitters(kind), timer \in Timers(kind) :
       DoConstruct(kind, lane, velocity, target_lane_index, target_velocity,
                   jitter, timer)

SpecConstruct == InitConstruct /\ [][NextConstruct]_vars

(***************************************************************************)
(* Properties                                                              *)
(***************************************************************************)
ControlledKinds == {"ControlledVehicle", "MDPVehicle"}
LaneIntents == {"LANE_LEFT", "LANE_RIGHT"}

\* the call that made the step to the primed state was op on vehicle v
Called(op, v) == last'.op = op /\ last'.self = v

\* C1: once crashed is true of a vehicle it is true in every later state:
\* no act, step or check_collision call, on it or with it as the other
\* party, sets it back to false.
C1_CrashedNeverReset ==
    [][\A v \in Vehicles : vehicles[v].crashed => vehicles'[v].crashed]_vars

\* C1: a crashed vehicle that has been stepped since and has just been given
\* an act call
C1_Witness ==
    \E v \in Vehicles :
       /\ vehicles[v].crashed
       /\ crash_steps[v] >= 1
       /\ last.op = "act"
       /\ last.self = v

C3_Original ==
    [][\A v \in Vehicles :
          vehicles[v].kind \in EgoKinds
          => /\ vehicles'[v].target_lane_index # vehicles[v].target_lane_index
                => /\ vehicles'[v].target_lane_index \in 0 .. lanes_len - 1
                   /\ is_reachable_from(vehicles'[v].target_lane_index,
                                        vehicles[v].position)
             /\ /\ vehicles[v].kind \in ControlledKinds
                /\ Called("act", v)
                /\ last'.arg \in LaneIntents
                /\ ~lane_granted(vehicles[v], last'.arg)
                => /\ vehicles'[v].target_lane_index = vehicles[v].target_lane_index
                   /\ vehicles'[v].target_velocity = vehicles[v].target_velocity
                   /\ raised' = ""]_vars

\* C4, as the specification states it: in every state of an MDPVehicle,
\* construction included, 0 <= velocity_index <= SPEED_COUNT - 1.
C4_Original ==
    \A v \in DOMAIN vehicles :
       vehicles[v].kind = "MDPVehicle"
       => vehicles[v].velocity_index \in 0 .. SPEED_COUNT - 1

\* C5: for SPEED_COUNT > 1 and a speed v in [SPEED_MIN, SPEED_MAX],
\* index_to_speed(speed_to_index(v)) is an allowed speed, the nearest one to
\* v, at most half the spacing away; speed_to_index(index_to_speed(i)) = i
\* for every index i; for SPEED_COUNT = 1 the round trip of every speed is
\* SPEED_MIN.
C5_RoundTrip ==
    /\ /\ conv.op = "speed"
       /\ SPEED_COUNT > 1
       /\ conv.arg \in SPEED_MIN .. SPEED_MAX
       => /\ conv.via \in 0 .. SPEED_COUNT - 1
          /\ 2 * (SPEED_COUNT - 1) * Abs(conv.result - conv.arg)
               <= SPEED_MAX - SPEED_MIN
          /\ \A i \in 0 .. SPEED_COUNT - 1 :
                Abs(conv.result - conv.arg)
                  <= Abs(index_to_speed(SPEED_COUNT, i) - conv.arg)
    /\ conv.op = "speed" /\ SPEED_COUNT = 1 => conv.result = SPEED_MIN
    /\ conv.op = "index" => conv.result = conv.arg

\* C5: the round trip of a speed exactly half way between two allowed speeds
C5_Witness ==
    /\ conv.op = "speed"
    /\ SPEED_COUNT = MaxSpeedCount
    /\ conv.arg \in SPEED_MIN .. SPEED_MAX
    /\ 2 * (SPEED_COUNT - 1) * Abs(conv.result - conv.arg) = SPEED_MAX - SPEED_MIN

\* C6: for any two vehicles a and b, a.check_collision(b) and
\* b.check_collision(a) leave both with the same crashed values; each of the
\* two is crashed afterwards exactly when it was crashed before or the
\* distance between the positions is below the sum of the half widths;
\* repeating the call changes nothing more; a.check_collision(a) changes
\* nothing.
C6_CollisionSymmetric ==
    \A a \in DOMAIN vehicles, b \in DOMAIN vehicles :
       /\ \A x \in {a, b} :
             check_collision(vehicles, a, b)[x].crashed
               = check_collision(vehicles, b, a)[x].crashed
       /\ a # b
          => \A x \in {a, b} :
                check_collision(vehicles, a, b)[x].crashed
                  = \/ vehicles[x].crashed
                    \/ (vehicles[a].position[1] - vehicles[b].position[1])
                         * (vehicles[a].position[1] - vehicles[b].position[1])
                       + (vehicles[a].position[2] - vehicles[b].position[2])
                         * (vehicles[a].position[2] - vehicles[b].position[2])
                       < (WIDTH \div 2 + WIDTH \div 2) * (WIDTH \div 2 + WIDTH \div 2)
       /\ check_collision(check_collision(vehicles, a, b), a, b)
            = check_collision(vehicles, a, b)
       /\ check_collision(vehicles, a, a) = vehicles

\* C6: a check_collision call has just marked both vehicles
C6_Witness ==
    /\ last.op = "check_collision"
    /\ last.self # last.arg
    /\ \A v \in Vehicles : vehicles[v].crashed /\ vehicles[v].color = "RED"

\* C7: a predict_trajectory call with N intents, D = int(action_duration /
\* dt) and S = int(trajectory_timestep / dt), S >= 1 dividing D, returns
\* N * D / S states; the k-th recorded state is the copy after k * S ticks;
\* intent i is applied once, to the copy, when (i - 1) * D ticks have been
\* integrated, and between intents the copy only changes by ticks; no
\* vehicle of the road is changed.
C7_Trajectory ==
    [][/\ vehicles' = vehicles
       /\ pc' = "done" /\ raised' = ""
          => /\ pi' = Len(pin'.actions)
             /\ pt' = Len(pin'.actions) * action_ticks(pin')
             /\ /\ sample_ticks(pin') >= 1
                /\ action_ticks(pin') % sample_ticks(pin') = 0
                => Len(states') * sample_ticks(pin')
                     = Len(pin'.actions) * action_ticks(pin')
       /\ pc = "for_tick" /\ Len(states') # Len(states)
          => /\ Len(states') = Len(states) + 1
             /\ SubSeq(states', 1, Len(states)) = states
             /\ states'[Len(states')] = pv'
             /\ pt' = Len(states') * sample_ticks(pin)
       /\ pc = "for_tick" /\ pt' = pt + 1 /\ raised' = ""
                          /\ pt' % sample_ticks(pin) = 0
          => Len(states') = Len(states) + 1
       /\ pc = "for_action" /\ pi' = pi + 1
          => /\ pt = pi * action_ticks(pin)
             /\ pv' = MDPVehicle_act(SPEED_COUNT, pv, pin.actions[pi'])
       /\ pc = "for_tick" /\ pv' # pv
          => /\ pt' = pt + 1
             /\ pi' = pi
             /\ pv' = Vehicle_step(MDPVehicle_act(SPEED_COUNT, pv, "none"),
                                   pin.dt, 0, 0)]_vars

\* C7: a call with MaxIntents intents of 4 ticks each, sampled every 2
\* ticks, has returned
C7_Witness ==
    /\ pc = "done"
    /\ raised = ""
    /\ Len(pin.actions) = MaxIntents
    /\ MaxIntents >= 2
    /\ action_ticks(pin) = 4
    /\ sample_ticks(pin) = 2
    /\ Len(states) = 2 * MaxIntents

\* C8, as the specification states it: every IDMVehicle.act call completes
\* without raising and leaves a stored command whose acceleration lies in
\* [-BRAKE_ACC, ACC_MAX].
C8_Original ==
    \A v \in DOMAIN vehicles :
       vehicles[v].kind = "IDMVehicle" /\ last.op = "act" /\ last.self = v
       => /\ raised = ""
          /\ vehicles[v].action.acceleration >= -BRAKE_ACC
          /\ vehicles[v].action.acceleration <= ACC_MAX

\* C9, as the specification states it, for a vehicle whose held index is in
\* range: FASTER raises and SLOWER lowers velocity_index by one from the
\* index held before the call, clamped to [0, SPEED_COUNT - 1], whatever the
\* velocity; the other intents leave it unchanged.
C9_Original ==
    [][\A v \in Vehicles :
          /\ vehicles[v].kind = "MDPVehicle"
          /\ vehicles[v].velocity_index \in 0 .. SPEED_COUNT - 1
          /\ Called("act", v)
          => vehicles'[v].velocity_index
               = IF last'.arg = "FASTER"
                   THEN constrain(vehicles[v].velocity_index + 1, 0, SPEED_COUNT - 1)
                 ELSE IF last'.arg = "SLOWER"
                   THEN constrain(vehicles[v].velocity_index - 1, 0, SPEED_COUNT - 1)
                 ELSE vehicles[v].velocity_index]_vars

\* C9, as the code has it: FASTER sets velocity_index to the index of the
\* current physical velocity plus one and SLOWER to that index minus one,
\* not to the held index plus or minus one; every intent then clamps
\* velocity_index to [0, SPEED_COUNT - 1] and sets target_velocity to
\* index_to_speed(velocity_index), so the other intents leave the held
\* index where it is only if it was in range.
C9_Amended ==
    [][\A v \in Vehicles :
          vehicles[v].kind = "MDPVehicle" /\ Called("act", v)
          => /\ vehicles'[v].velocity_index
                  = constrain(IF last'.arg = "FASTER"
                                THEN speed_to_index(SPEED_COUNT, vehicles[v].velocity) + 1
                              ELSE IF last'.arg = "SLOWER"
                                THEN speed_to_index(SPEED_COUNT, vehicles[v].velocity) - 1
                              ELSE vehicles[v].velocity_index,
                              0, SPEED_COUNT - 1)
             /\ vehicles'[v].target_velocity
                  = index_to_speed(SPEED_COUNT, vehicles'[v].velocity_index)]_vars

\* C9: an MDPVehicle with several allowed speeds that has just been given
\* SLOWER while its velocity was the middle speed or above, and holds the
\* index below that of its velocity
C9_Witness ==
    \E v \in Vehicles :
       /\ vehicles[v].kind = "MDPVehicle"
       /\ SPEED_COUNT >= 3
       /\ last = Call("act", v, "SLOWER")
       /\ speed_to_index(SPEED_COUNT, vehicles[v].velocity) >= 1
       /\ vehicles[v].velocity_index
            = speed_to_index(SPEED_COUNT, vehicles[v].velocity) - 1

\* C10: for an IDMVehicle, every step(dt) adds dt to timer; nothing else
\* changes timer except an act entered with timer past LANE_CHANGE_DELAY,
\* which sets it to 0; every such act does; target_lane_index changes only
\* in such an act; and the step durations between two consecutive lane-change
\* evaluations sum to more than LANE_CHANGE_DELAY.
C10_TimerGating ==
    [][\A v \in Vehicles :
          vehicles[v].kind = "IDMVehicle"
          => /\ Called("step", v)
                => vehicles'[v].timer = vehicles[v].timer + last'.arg
             /\ vehicles'[v].timer # vehicles[v].timer /\ ~Called("step", v)
                => /\ Called("act", v)
                   /\ vehicles[v].timer > LANE_CHANGE_DELAY
             /\ Called("act", v) /\ vehicles[v].timer > LANE_CHANGE_DELAY
                => /\ vehicles'[v].timer = 0
                   /\ lane_eval'[v].since = 0
             /\ \/ vehicles'[v].target_lane_index # vehicles[v].target_lane_index
                \/ lane_eval'[v] # lane_eval[v] /\ ~Called("step", v)
                => /\ Called("act", v)
                   /\ vehicles[v].timer > LANE_CHANGE_DELAY
                   /\ vehicles'[v].timer = 0
             /\ lane_eval'[v].gap # None
                => lane_eval'[v].gap > LANE_CHANGE_DELAY]_vars

\* C10: an IDMVehicle whose act has just made its second lane-change
\* evaluation
C10_Witness ==
    \E v \in Vehicles :
       /\ vehicles[v].kind = "IDMVehicle"
       /\ last.op = "act"
       /\ last.self = v
       /\ lane_eval[v].since = 0
       /\ lane_eval[v].gap # None
       /\ vehicles[v].timer = 0

\* C11: in a lane-change evaluation of an IDMVehicle (an act call whose
\* timer has passed LANE_CHANGE_DELAY) where the left and the right adjacent
\* lane are two lanes other than the target and both pass mobil on the state
\* the call starts from, the target after the call is the first of the two
\* in the order of evaluation: the second one is not applied.
C11_Original ==
    [][\A v \in Vehicles :
          /\ Called("act", v)
          /\ vehicles[v].kind = "IDMVehicle"
          /\ do_every(LANE_CHANGE_DELAY, vehicles[v].timer)
          /\ lane_indexes(vehicles[v])[1] # lane_indexes(vehicles[v])[2]
          /\ vehicles[v].target_lane_index \notin
                {lane_indexes(vehicles[v])[1], lane_indexes(vehicles[v])[2]}
          /\ mobil(vehicles, v, lane_indexes(vehicles[v])[1]) = "True"
          /\ mobil(vehicles, v, lane_indexes(vehicles[v])[2]) = "True"
          => vehicles'[v].target_lane_index = lane_indexes(vehicles[v])[1]]_vars

\* the vehicles of lane l behind vehicle v, and whether each of them (so the
\* nearest of them) is more than 3 vehicle lengths behind it
FollowersIn(vs, v, l) ==
    {w \in Vehicles \ {v} : /\ vs[w].lane_index = l
                            /\ vs[w].position[1] < vs[v].position[1]}
ClearBehind(vs, v, l) ==
    \A w \in FollowersIn(vs, v, l) :
       vs[v].position[1] - vs[w].position[1] > 3 * LENGTH

\* C12: recover_from_stop(acceleration) on an IDMVehicle returns -ACC_MAX/2
\* exactly when the vehicle is off its target lane, slower than 5 m/s, and
\* in its current and in its target lane the nearest following vehicle is
\* absent or more than 3 vehicle lengths behind; otherwise it returns the
\* acceleration it was given.
C12_Original ==
    [][\A v \in Vehicles :
          Called("recover_from_stop", v)
          => conv'.result =
               IF /\ vehicles[v].target_lane_index # vehicles[v].lane_index
                  /\ vehicles[v].velocity < 5 * VU
                  /\ ClearBehind(vehicles, v, vehicles[v].lane_index)
                  /\ ClearBehind(vehicles, v, vehicles[v].target_lane_index)
               THEN -(ACC_MAX \div 2)
               ELSE conv'.arg]_vars

\* a step of a base Vehicle that is not crashed and holds the zero command
ZeroCommand == [steering |-> 0, acceleration |-> 0]
CoastingStep(v) ==
    /\ Called("step", v)
    /\ vehicles[v].kind = "Vehicle"
    /\ ~vehicles[v].crashed
    /\ vehicles[v].action = ZeroCommand

\* the step of duration dt keeps the velocity of r in s and advances the
\* position by velocity * (cos heading, sin heading) * dt
StraightAdvance(r, s, dt) ==
    /\ s.velocity = r.velocity
    /\ s.position[1] = r.position[1] + Rnd(r.velocity * dt * Cos(r.heading), Milli)
    /\ s.position[2] = r.position[2] + Rnd(r.velocity * dt * Sin(r.heading), Milli)

\* the steering angle of s is that of r times (1 - dt / STEERING_TAU), to
\* the nearest grid point
SteeringDecay(r, s, dt) ==
    2 * Abs(s.steering_angle * STEERING_TAU
            - r.steering_angle * (STEERING_TAU - dt)) <= STEERING_TAU

\* C13: a step of any dt > 0 of a base Vehicle that is not crashed and
\* holds the command steering 0, acceleration 0 keeps velocity and heading,
\* advances the position by velocity * (cos heading, sin heading) * dt, and
\* multiplies steering_angle by (1 - dt / STEERING_TAU), its magnitude never
\* increasing.
C13_Original ==
    [][\A v \in Vehicles :
          CoastingStep(v)
          => /\ StraightAdvance(vehicles[v], vehicles'[v], last'.arg)
             /\ vehicles'[v].heading = vehicles[v].heading
             /\ SteeringDecay(vehicles[v], vehicles'[v], last'.arg)
             /\ Abs(vehicles'[v].steering_angle)
                  <= Abs(vehicles[v].steering_angle)]_vars

\* C13, amended: such a step keeps the velocity, advances the position by
\* velocity * (cos heading, sin heading) * dt, turns the heading by
\* velocity * steering_angle / LENGTH * dt (so the heading is kept when
\* steering_angle is 0, and steering_angle then stays 0), and multiplies
\* steering_angle by (1 - dt / STEERING_TAU); its magnitude does not
\* increase when dt <= 2 * STEERING_TAU.
C13_Amended ==
    [][\A v \in Vehicles :
          CoastingStep(v)
          => /\ StraightAdvance(vehicles[v], vehicles'[v], last'.arg)
             /\ vehicles'[v].heading
                  = vehicles[v].heading
                    + Rnd(vehicles[v].velocity * vehicles[v].steering_angle
                            * last'.arg * PU,
                          VU * LENGTH * TicksPerSecond)
             /\ vehicles[v].steering_angle = 0
                  => /\ vehicles'[v].heading = vehicles[v].heading
                     /\ vehicles'[v].steering_angle = 0
             /\ SteeringDecay(vehicles[v], vehicles'[v], last'.arg)
             /\ last'.arg <= 2 * STEERING_TAU
                  => Abs(vehicles'[v].steering_angle)
                       <= Abs(vehicles[v].steering_angle)]_vars

\* C13: the driven vehicle, not crashed and holding the zero command, has
\* just been stepped by more than 2 * STEERING_TAU and still has a steering
\* angle left from an earlier steering command
C13_Witness ==
    /\ last.op = "step"
    /\ last.self = 1
    /\ last.arg > 2 * STEERING_TAU
    /\ vehicles[1].kind = "Vehicle"
    /\ ~vehicles[1].crashed
    /\ vehicles[1].action = ZeroCommand
    /\ vehicles[1].steering_angle # 0
    /\ vehicles[1].heading \notin DriveHeadings

\* C14: a controlled vehicle constructed with an explicit target_lane_index
\* k starts with target_lane_index = k, for every lane index k, 0 included,
\* and a ControlledVehicle constructed with an explicit target_velocity w
\* starts with target_velocity = w, for every w, 0 included; lane_index and
\* velocity are the setpoints only when the argument is omitted.
C14_Original ==
    [][\A v \in Vehicles :
          Called("__init__", v)
          => /\ vehicles'[v].target_lane_index
                  = IF last'.arg.target_lane_index = None
                    THEN vehicles'[v].lane_index
                    ELSE last'.arg.target_lane_index
             /\ last'.arg.kind = "ControlledVehicle"
                  => vehicles'[v].target_velocity
                       = IF last'.arg.target_velocity = None
                         THEN vehicles'[v].velocity
                         ELSE last'.arg.target_velocity]_vars

====
